---- MODULE Spec2Model ----
(***************************************************************************)
(* The transaction processor of src/src/main.rs: a ledger (client id ->    *)
(* account) driven by a stream of CSV records.  Amounts are exact decimals *)
(* in the program; here they are integers counting the smallest unit.      *)
(***************************************************************************)
EXTENDS Integers, Sequences, FiniteSets, TLC

\* ------------------------------------------------------------------ bounds
\* Amounts run over 0..MaxAmount smallest units; a run reads at most
\* MaxRecords rows.
MaxAmount == 1
MaxRecords == 5

\* A run that keeps the whole decoded stream in its state reads at most
\* MaxStream rows.
MaxStream == 2

\* ClientId(u16) and TransactionId(u32) are opaque keys: the program only
\* compares and hashes them, so two of each stand for all of them.
ClientIds == {1, 2}
TxIds == {1, 2}

\* ------------------------------------------------------------- input stream
\* The type column as it stands in the file, after csv::Trim::All.
RawTypes == {"deposit", "withdrawal", "dispute", "resolve", "chargeback",
             "Deposit", "DISPUTE", "transfer"}

\* Option<Decimal>: <<>> is None, <<a>> is Some(a).
RawAmounts == {<<>>} \cup {<<a>> : a \in (0 - 1)..MaxAmount}

\* The rows the input may hold, before serde has looked at the type column:
\* deposits and withdrawals with every amount column; the reference types
\* and the unknown types with the amount column empty or filled.
Records ==
    [tx_type : {"deposit", "withdrawal"}, client : ClientIds, tx : TxIds,
     amount : RawAmounts]
    \cup [tx_type : RawTypes \ {"deposit", "withdrawal"}, client : ClientIds,
          tx : TxIds, amount : {<<>>, <<MaxAmount>>}]

\* #[serde(rename_all = "lowercase")] enum TransactionType: the variant a
\* type column names, or "Invalid" when serde knows no such variant.
TransactionType(s) ==
    CASE s = "deposit" -> "Deposit"
      [] s = "withdrawal" -> "Withdrawal"
      [] s = "dispute" -> "Dispute"
      [] s = "resolve" -> "Resolve"
      [] s = "chargeback" -> "Chargeback"
      [] OTHER -> "Invalid"

\* csv_reader.deserialize(): Ok(TransactionRecord) or Err.
Deserialize(rec) ==
    IF TransactionType(rec.tx_type) = "Invalid"
    THEN [ok |-> FALSE, err |-> "unknown variant"]
    ELSE [ok |-> TRUE,
          record |-> [tx_type |-> TransactionType(rec.tx_type), client |-> rec.client,
                      tx |-> rec.tx, amount |-> rec.amount]]

\* validated_amount that only asks for the amount to be there.
validated_amount_any_sign(record) ==
    IF record.amount = <<>> THEN [ok |-> FALSE, err |-> "missing amount"]
    ELSE [ok |-> TRUE, amount |-> record.amount[1]]

\* TransactionRecord::validated_amount
validated_amount(record) ==
    IF record.amount = <<>> THEN [ok |-> FALSE, err |-> "missing amount"]
    ELSE IF record.amount[1] < 0
         THEN [ok |-> FALSE, err |-> "negative amount not allowed"]
    ELSE [ok |-> TRUE, amount |-> record.amount[1]]

\* impl TryFrom<&TransactionRecord> for Transaction
try_from(record) ==
    CASE record.tx_type = "Deposit" ->
            IF validated_amount(record).ok
            THEN [ok |-> TRUE,
                  transaction |-> [type |-> "Deposit", client |-> record.client,
                                   tx |-> record.tx,
                                   amount |-> validated_amount(record).amount]]
            ELSE [ok |-> FALSE, err |-> validated_amount(record).err]
      [] record.tx_type = "Withdrawal" ->
            IF validated_amount(record).ok
            THEN [ok |-> TRUE,
                  transaction |-> [type |-> "Withdrawal", client |-> record.client,
                                   amount |-> validated_amount(record).amount]]
            ELSE [ok |-> FALSE, err |-> validated_amount(record).err]
      [] OTHER ->
            [ok |-> TRUE,
             transaction |-> [type |-> record.tx_type, client |-> record.client,
                              tx |-> record.tx]]

\* ------------------------------------------------------------------ ledger
\* HashMap::insert / entry().insert
Put(map, key, value) ==
    [k \in (DOMAIN map) \cup {key} |-> IF k = key THEN value ELSE map[k]]

\* ClientState::default()
DefaultClientState ==
    [deposits |-> <<>>, available |-> 0, held |-> 0, locked |-> FALSE]

\* Ledger::new()
EmptyLedger == <<>>

\* Result<()> of a process_* function, with the ledger as it stands on return.
Ok(l) == [ok |-> TRUE, ledger |-> l]
Err(l) == [ok |-> FALSE, ledger |-> l]

\* check_unlocked that lets every account through.
check_unlocked_ignores_lock(client_state) == TRUE

\* ClientState::check_unlocked
check_unlocked(client_state) == ~client_state.locked

\* ClientState::get_deposit_mut
get_deposit_mut(client_state, tx) == tx \in DOMAIN client_state.deposits

\* process_deposit that writes a fresh ClientState with ledger.insert when the
\* account is locked, instead of bailing.
process_deposit_replaces_locked(l, client, tx, amount) ==
    LET credit(l1) ==
            Put(l1, client,
                [l1[client] EXCEPT
                    !.available = @ + amount,
                    !.deposits = Put(@, tx, [amount |-> amount, under_dispute |-> FALSE])])
    IN  IF client \in DOMAIN l
        THEN IF l[client].locked THEN Ok(credit(Put(l, client, DefaultClientState)))
             ELSE IF tx \in DOMAIN l[client].deposits THEN Err(l)
             ELSE Ok(credit(l))
        ELSE Ok(credit(Put(l, client, DefaultClientState)))

\* process_deposit that opens the account but credits only accounts that
\* existed before.
process_deposit_opens_empty(l, client, tx, amount) ==
    LET credit(l1) ==
            Put(l1, client,
                [l1[client] EXCEPT
                    !.available = @ + amount,
                    !.deposits = Put(@, tx, [amount |-> amount, under_dispute |-> FALSE])])
    IN  IF client \in DOMAIN l
        THEN IF l[client].locked THEN Err(l)
             ELSE IF tx \in DOMAIN l[client].deposits THEN Err(l)
             ELSE Ok(credit(l))
        ELSE Ok(Put(l, client, DefaultClientState))

\* process_deposit without the duplicate check: a second deposit under a
\* stored tx id overwrites the first.
process_deposit_overwrites(l, client, tx, amount) ==
    LET credit(l1) ==
            Put(l1, client,
                [l1[client] EXCEPT
                    !.available = @ + amount,
                    !.deposits = Put(@, tx, [amount |-> amount, under_dispute |-> FALSE])])
    IN  IF client \in DOMAIN l
        THEN IF l[client].locked THEN Err(l)
             ELSE Ok(credit(l))
        ELSE Ok(credit(Put(l, client, DefaultClientState)))

\* process_deposit that looks for a duplicate tx in every account of the
\* ledger, not only in the depositing client's.
process_deposit_unique_globally(l, client, tx, amount) ==
    LET credit(l1) ==
            Put(l1, client,
                [l1[client] EXCEPT
                    !.available = @ + amount,
                    !.deposits = Put(@, tx, [amount |-> amount, under_dispute |-> FALSE])])
    IN  IF client \in DOMAIN l /\ l[client].locked THEN Err(l)
        ELSE IF \E o \in DOMAIN l : tx \in DOMAIN l[o].deposits THEN Err(l)
        ELSE IF client \in DOMAIN l THEN Ok(credit(l))
        ELSE Ok(credit(Put(l, client, DefaultClientState)))

process_deposit(l, client, tx, amount) ==
    LET credit(l1) ==
            Put(l1, client,
                [l1[client] EXCEPT
                    !.available = @ + amount,
                    !.deposits = Put(@, tx, [amount |-> amount, under_dispute |-> FALSE])])
    IN  IF client \in DOMAIN l
        THEN IF l[client].locked THEN Err(l)
             ELSE IF tx \in DOMAIN l[client].deposits THEN Err(l)
             ELSE Ok(credit(l))
        ELSE Ok(credit(Put(l, client, DefaultClientState)))

\* process_withdrawal that looks the account up with entry().or_default().
process_withdrawal_opens_account(l, client, amount) ==
    LET l1 == IF client \in DOMAIN l THEN l ELSE Put(l, client, DefaultClientState)
    IN  IF ~check_unlocked(l1[client]) THEN Err(l1)
        ELSE IF l1[client].available < amount THEN Err(l1)
        ELSE Ok([l1 EXCEPT ![client].available = @ - amount])

\* process_withdrawal that also refuses to empty the account.
process_withdrawal_keeps_a_rest(l, client, amount) ==
    IF client \notin DOMAIN l THEN Err(l)
    ELSE IF ~check_unlocked(l[client]) THEN Err(l)
    ELSE IF l[client].available <= amount THEN Err(l)
    ELSE Ok([l EXCEPT ![client].available = @ - amount])

\* process_withdrawal that debits before it looks at the balance.
process_withdrawal_debits_first(l, client, amount) ==
    IF client \notin DOMAIN l THEN Err(l)
    ELSE IF ~check_unlocked(l[client]) THEN Err(l)
    ELSE IF l[client].available < amount
         THEN Err([l EXCEPT ![client].available = @ - amount])
    ELSE Ok([l EXCEPT ![client].available = @ - amount])

\* process_withdrawal without the insufficient-funds check.
process_withdrawal_overdraws(l, client, amount) ==
    IF client \notin DOMAIN l THEN Err(l)
    ELSE IF ~check_unlocked(l[client]) THEN Err(l)
    ELSE Ok([l EXCEPT ![client].available = @ - amount])

process_withdrawal(l, client, amount) ==
    IF client \notin DOMAIN l THEN Err(l)
    ELSE IF ~check_unlocked(l[client]) THEN Err(l)
    ELSE IF l[client].available < amount THEN Err(l)
    ELSE Ok([l EXCEPT ![client].available = @ - amount])

\* process_dispute that holds the amount again when the deposit is already
\* under dispute.
process_dispute_reentrant(l, client, tx) ==
    IF client \notin DOMAIN l THEN Err(l)
    ELSE IF ~check_unlocked(l[client]) THEN Err(l)
    ELSE IF ~get_deposit_mut(l[client], tx) THEN Err(l)
    ELSE LET amount == l[client].deposits[tx].amount
         IN  Ok([l EXCEPT ![client].deposits[tx].under_dispute = TRUE,
                          ![client].held = @ + amount,
                          ![client].available = @ - amount])

\* process_dispute that finds the deposit by tx id alone, in whichever account
\* stores it.
process_dispute_any_owner(l, client, tx) ==
    LET owners == {o \in DOMAIN l : tx \in DOMAIN l[o].deposits}
        owner == IF client \in owners THEN client ELSE CHOOSE o \in owners : TRUE
    IN  IF client \notin DOMAIN l THEN Err(l)
        ELSE IF ~check_unlocked(l[client]) THEN Err(l)
        ELSE IF owners = {} THEN Err(l)
        ELSE IF l[owner].deposits[tx].under_dispute THEN Err(l)
        ELSE LET amount == l[owner].deposits[tx].amount
             IN  Ok([l EXCEPT ![owner].deposits[tx].under_dispute = TRUE,
                              ![owner].held = @ + amount,
                              ![owner].available = @ - amount])

\* process_dispute that refuses a dispute the available balance cannot cover.
process_dispute_needs_funds(l, client, tx) ==
    IF client \notin DOMAIN l THEN Err(l)
    ELSE IF ~check_unlocked(l[client]) THEN Err(l)
    ELSE IF ~get_deposit_mut(l[client], tx) THEN Err(l)
    ELSE IF l[client].deposits[tx].under_dispute THEN Err(l)
    ELSE IF l[client].available < l[client].deposits[tx].amount THEN Err(l)
    ELSE LET amount == l[client].deposits[tx].amount
         IN  Ok([l EXCEPT ![client].deposits[tx].under_dispute = TRUE,
                          ![client].held = @ + amount,
                          ![client].available = @ - amount])

\* process_dispute that debits available without crediting held.
process_dispute_drops_funds(l, client, tx) ==
    IF client \notin DOMAIN l THEN Err(l)
    ELSE IF ~check_unlocked(l[client]) THEN Err(l)
    ELSE IF ~get_deposit_mut(l[client], tx) THEN Err(l)
    ELSE IF l[client].deposits[tx].under_dispute THEN Err(l)
    ELSE LET amount == l[client].deposits[tx].amount
         IN  Ok([l EXCEPT ![client].deposits[tx].under_dispute = TRUE,
                          ![client].available = @ - amount])

process_dispute(l, client, tx) ==
    IF client \notin DOMAIN l THEN Err(l)
    ELSE IF ~check_unlocked(l[client]) THEN Err(l)
    ELSE IF ~get_deposit_mut(l[client], tx) THEN Err(l)
    ELSE IF l[client].deposits[tx].under_dispute THEN Err(l)
    ELSE LET amount == l[client].deposits[tx].amount
         IN  Ok([l EXCEPT ![client].deposits[tx].under_dispute = TRUE,
                          ![client].held = @ + amount,
                          ![client].available = @ - amount])

\* process_resolve that takes the settled deposit out of the map, so that no
\* later transaction can refer to it.
process_resolve_forgets_deposit(l, client, tx) ==
    IF client \notin DOMAIN l THEN Err(l)
    ELSE IF ~check_unlocked(l[client]) THEN Err(l)
    ELSE IF ~get_deposit_mut(l[client], tx) THEN Err(l)
    ELSE IF ~l[client].deposits[tx].under_dispute THEN Err(l)
    ELSE LET amount == l[client].deposits[tx].amount
             deposits == l[client].deposits
         IN  Ok([l EXCEPT ![client].deposits =
                              [k \in (DOMAIN deposits) \ {tx} |-> deposits[k]],
                          ![client].held = @ - amount,
                          ![client].available = @ + amount])

\* process_resolve that leaves the deposit marked as under dispute.
process_resolve_keeps_flag(l, client, tx) ==
    IF client \notin DOMAIN l THEN Err(l)
    ELSE IF ~check_unlocked(l[client]) THEN Err(l)
    ELSE IF ~get_deposit_mut(l[client], tx) THEN Err(l)
    ELSE IF ~l[client].deposits[tx].under_dispute THEN Err(l)
    ELSE LET amount == l[client].deposits[tx].amount
         IN  Ok([l EXCEPT ![client].held = @ - amount,
                          ![client].available = @ + amount])

\* process_resolve that releases the funds but leaves them counted in held.
process_resolve_keeps_held(l, client, tx) ==
    IF client \notin DOMAIN l THEN Err(l)
    ELSE IF ~check_unlocked(l[client]) THEN Err(l)
    ELSE IF ~get_deposit_mut(l[client], tx) THEN Err(l)
    ELSE IF ~l[client].deposits[tx].under_dispute THEN Err(l)
    ELSE LET amount == l[client].deposits[tx].amount
         IN  Ok([l EXCEPT ![client].deposits[tx].under_dispute = FALSE,
                          ![client].available = @ + amount])

\* process_resolve that takes the funds out of held without handing them
\* back to available.
process_resolve_keeps_funds(l, client, tx) ==
    IF client \notin DOMAIN l THEN Err(l)
    ELSE IF ~check_unlocked(l[client]) THEN Err(l)
    ELSE IF ~get_deposit_mut(l[client], tx) THEN Err(l)
    ELSE IF ~l[client].deposits[tx].under_dispute THEN Err(l)
    ELSE LET amount == l[client].deposits[tx].amount
         IN  Ok([l EXCEPT ![client].deposits[tx].under_dispute = FALSE,
                          ![client].held = @ - amount])

\* process_resolve that does not ask whether the deposit is under dispute.
process_resolve_undisputed(l, client, tx) ==
    IF client \notin DOMAIN l THEN Err(l)
    ELSE IF ~check_unlocked(l[client]) THEN Err(l)
    ELSE IF ~get_deposit_mut(l[client], tx) THEN Err(l)
    ELSE LET amount == l[client].deposits[tx].amount
         IN  Ok([l EXCEPT ![client].deposits[tx].under_dispute = FALSE,
                          ![client].held = @ - amount,
                          ![client].available = @ + amount])

process_resolve(l, client, tx) ==
    IF client \notin DOMAIN l THEN Err(l)
    ELSE IF ~check_unlocked(l[client]) THEN Err(l)
    ELSE IF ~get_deposit_mut(l[client], tx) THEN Err(l)
    ELSE IF ~l[client].deposits[tx].under_dispute THEN Err(l)
    ELSE LET amount == l[client].deposits[tx].amount
         IN  Ok([l EXCEPT ![client].deposits[tx].under_dispute = FALSE,
                          ![client].held = @ - amount,
                          ![client].available = @ + amount])

\* process_chargeback that locks the account before it looks at the deposit.
process_chargeback_locks_first(l, client, tx) ==
    IF client \notin DOMAIN l THEN Err(l)
    ELSE IF ~check_unlocked(l[client]) THEN Err(l)
    ELSE LET l1 == [l EXCEPT ![client].locked = TRUE]
         IN  IF ~get_deposit_mut(l[client], tx) THEN Err(l1)
             ELSE IF ~l[client].deposits[tx].under_dispute THEN Err(l1)
             ELSE LET amount == l[client].deposits[tx].amount
                  IN  Ok([l1 EXCEPT ![client].deposits[tx].under_dispute = FALSE,
                                    ![client].held = @ - amount])

\* process_chargeback that does not ask whether the deposit is under dispute.
process_chargeback_undisputed(l, client, tx) ==
    IF client \notin DOMAIN l THEN Err(l)
    ELSE IF ~check_unlocked(l[client]) THEN Err(l)
    ELSE IF ~get_deposit_mut(l[client], tx) THEN Err(l)
    ELSE LET amount == l[client].deposits[tx].amount
         IN  Ok([l EXCEPT ![client].deposits[tx].under_dispute = FALSE,
                          ![client].held = @ - amount,
                          ![client].locked = TRUE])

\* process_chargeback that hands the held funds back, as a resolve does.
process_chargeback_refunds(l, client, tx) ==
    IF client \notin DOMAIN l THEN Err(l)
    ELSE IF ~check_unlocked(l[client]) THEN Err(l)
    ELSE IF ~get_deposit_mut(l[client], tx) THEN Err(l)
    ELSE IF ~l[client].deposits[tx].under_dispute THEN Err(l)
    ELSE LET amount == l[client].deposits[tx].amount
         IN  Ok([l EXCEPT ![client].deposits[tx].under_dispute = FALSE,
                          ![client].held = @ - amount,
                          ![client].available = @ + amount,
                          ![client].locked = TRUE])

\* process_chargeback that looks the deposit up in whichever account stores
\* it when the named client's own account does not.
process_chargeback_any_owner(l, client, tx) ==
    LET owners == {o \in DOMAIN l : tx \in DOMAIN l[o].deposits}
        owner == IF client \in owners THEN client ELSE CHOOSE o \in owners : TRUE
    IN  IF client \notin DOMAIN l THEN Err(l)
        ELSE IF ~check_unlocked(l[client]) THEN Err(l)
        ELSE IF owners = {} THEN Err(l)
        ELSE IF ~l[owner].deposits[tx].under_dispute THEN Err(l)
        ELSE LET amount == l[owner].deposits[tx].amount
             IN  Ok([l EXCEPT ![owner].deposits[tx].under_dispute = FALSE,
                              ![owner].held = @ - amount,
                              ![owner].locked = TRUE])

\* process_chargeback that takes the funds and leaves the account open.
process_chargeback_leaves_open(l, client, tx) ==
    IF client \notin DOMAIN l THEN Err(l)
    ELSE IF ~check_unlocked(l[client]) THEN Err(l)
    ELSE IF ~get_deposit_mut(l[client], tx) THEN Err(l)
    ELSE IF ~l[client].deposits[tx].under_dispute THEN Err(l)
    ELSE LET amount == l[client].deposits[tx].amount
         IN  Ok([l EXCEPT ![client].deposits[tx].under_dispute = FALSE,
                          ![client].held = @ - amount])

process_chargeback(l, client, tx) ==
    IF client \notin DOMAIN l THEN Err(l)
    ELSE IF ~check_unlocked(l[client]) THEN Err(l)
    ELSE IF ~get_deposit_mut(l[client], tx) THEN Err(l)
    ELSE IF ~l[client].deposits[tx].under_dispute THEN Err(l)
    ELSE LET amount == l[client].deposits[tx].amount
         IN  Ok([l EXCEPT ![client].deposits[tx].under_dispute = FALSE,
                          ![client].held = @ - amount,
                          ![client].locked = TRUE])

process_transaction(l, t) ==
    CASE t.type = "Deposit" -> process_deposit(l, t.client, t.tx, t.amount)
      [] t.type = "Withdrawal" -> process_withdrawal(l, t.client, t.amount)
      [] t.type = "Dispute" -> process_dispute(l, t.client, t.tx)
      [] t.type = "Resolve" -> process_resolve(l, t.client, t.tx)
      [] t.type = "Chargeback" -> process_chargeback(l, t.client, t.tx)

\* to_client_record that reports available as the total.
to_client_record_drops_held(client_state, client) ==
    [client |-> client,
     available |-> client_state.available,
     held |-> client_state.held,
     total |-> client_state.available,
     locked |-> client_state.locked]

\* ClientState::to_client_record
to_client_record(client_state, client) ==
    [client |-> client,
     available |-> client_state.available,
     held |-> client_state.held,
     total |-> client_state.available + client_state.held,
     locked |-> client_state.locked]

\* ------------------------------------------------------------------- driver
VARIABLES
    pc,         \* where main is: "read" (the record loop), "write", "done"
    ledger,     \* the Ledger main owns
    nread,      \* records consumed from the input so far
    last,       \* the Transaction the latest loop iteration decoded, if any
    result,     \* how that iteration ended: "Ok", "Err", "Dropped", or "None"
    prev,       \* the ledger as it stood before the latest loop iteration
    afterDispute, \* the latest iteration directly followed a successful Dispute
                  \* and carried a Resolve of the same client and tx
    output,     \* the rows written to stdout so far
    dropped,    \* the error the latest iteration warned about when it dropped
                \* its row before process_transaction, "" otherwise
    retried,    \* the latest iteration carried the very transaction that the
                \* iteration before it had seen rejected
    resolved,   \* the <<client, tx>> of every Resolve applied so far
    tally,      \* per client id, what the transactions applied so far add up
                \* to: deposits and chargebacks counted, amounts summed
    rawType,    \* the type column of the row the latest iteration read
    stream      \* the Transactions decoded so far, in input order (recorded
                \* by FoldSpec only, whose runs are short enough to carry it)

vars ==
    <<pc, ledger, nread, last, result, prev, afterDispute, output, dropped,
      retried, resolved, tally, rawType, stream>>

NoTransaction == [type |-> "None"]

\* Nothing has been applied for any client.
NoTally ==
    [c \in ClientIds |->
        [deposits |-> 0, deposited |-> 0, withdrawn |-> 0, chargebacks |-> 0,
         chargedback |-> 0]]

\* The tally once process_transaction has returned Ok for transaction on
\* ledger l; a Chargeback is entered with the amount l stores under its tx.
Tallied(t, l, transaction) ==
    LET c == transaction.client
        stored == IF c \in DOMAIN l /\ transaction.tx \in DOMAIN l[c].deposits
                  THEN l[c].deposits[transaction.tx].amount
                  ELSE 0
    IN  CASE transaction.type = "Deposit" ->
                [t EXCEPT ![c].deposits = @ + 1,
                          ![c].deposited = @ + transaction.amount]
          [] transaction.type = "Withdrawal" ->
                [t EXCEPT ![c].withdrawn = @ + transaction.amount]
          [] transaction.type = "Chargeback" ->
                [t EXCEPT ![c].chargebacks = @ + 1,
                          ![c].chargedback = @ + stored]
          [] OTHER -> t

Init ==
    /\ pc = "read"
    /\ ledger = EmptyLedger
    /\ nread = 0
    /\ last = NoTransaction
    /\ result = "None"
    /\ prev = EmptyLedger
    /\ afterDispute = FALSE
    /\ output = <<>>
    /\ dropped = ""
    /\ retried = FALSE
    /\ resolved = {}
    /\ tally = NoTally
    /\ rawType = ""
    /\ stream = <<>>

\* The loop body of a driver that, having seen a transaction rejected, does
\* not apply the one that follows it.
Iterate_skips_after_rejection(dec) ==
    LET r == IF result = "Err" THEN Err(ledger)
             ELSE process_transaction(ledger, dec.transaction)
    IN  /\ nread' = nread + 1
        /\ prev' = ledger
        /\ IF ~dec.ok
           THEN /\ last' = NoTransaction
                /\ result' = "Dropped"
                /\ dropped' = dec.err
                /\ ledger' = ledger
                /\ afterDispute' = FALSE
                /\ retried' = FALSE
                /\ resolved' = resolved
                /\ tally' = tally
           ELSE /\ last' = dec.transaction
                /\ result' = IF r.ok THEN "Ok" ELSE "Err"
                /\ dropped' = ""
                /\ ledger' = r.ledger
                /\ afterDispute' = FALSE
                /\ retried' = (result = "Err" /\ dec.transaction = last)
                /\ resolved' =
                      IF r.ok /\ dec.transaction.type = "Resolve"
                      THEN resolved \cup
                              {<<dec.transaction.client, dec.transaction.tx>>}
                      ELSE resolved
                /\ tally' = IF r.ok THEN Tallied(tally, ledger, dec.transaction)
                            ELSE tally
        /\ UNCHANGED <<pc, output>>

\* The loop body with `?` where the code has `continue` and `if let Err`: the
\* first row that fails to decode, or transaction that is rejected, ends main.
Iterate_stops_at_error(dec) ==
    LET r == process_transaction(ledger, dec.transaction)
    IN  /\ nread' = nread + 1
        /\ prev' = ledger
        /\ IF ~dec.ok
           THEN /\ last' = NoTransaction
                /\ result' = "Dropped"
                /\ dropped' = dec.err
                /\ ledger' = ledger
                /\ afterDispute' = FALSE
                /\ retried' = FALSE
                /\ resolved' = resolved
                /\ tally' = tally
                /\ pc' = "failed"
           ELSE /\ last' = dec.transaction
                /\ result' = IF r.ok THEN "Ok" ELSE "Err"
                /\ dropped' = ""
                /\ ledger' = r.ledger
                /\ afterDispute' = FALSE
                /\ retried' = (result = "Err" /\ dec.transaction = last)
                /\ resolved' =
                      IF r.ok /\ dec.transaction.type = "Resolve"
                      THEN resolved \cup
                              {<<dec.transaction.client, dec.transaction.tx>>}
                      ELSE resolved
                /\ tally' = IF r.ok THEN Tallied(tally, ledger, dec.transaction)
                            ELSE tally
                /\ pc' = IF r.ok THEN pc ELSE "failed"
        /\ UNCHANGED output

\* What one iteration of the record loop does with the outcome of decoding
\* its row: dec.ok with dec.transaction, or ~dec.ok with dec.err.
Iterate(dec) ==
    LET r == process_transaction(ledger, dec.transaction)
    IN  /\ nread' = nread + 1
        /\ prev' = ledger
        /\ IF ~dec.ok
           THEN /\ last' = NoTransaction
                /\ result' = "Dropped"
                /\ dropped' = dec.err
                /\ ledger' = ledger
                /\ afterDispute' = FALSE
                /\ retried' = FALSE
                /\ resolved' = resolved
                /\ tally' = tally
           ELSE /\ last' = dec.transaction
                /\ result' = IF r.ok THEN "Ok" ELSE "Err"
                /\ dropped' = ""
                /\ ledger' = r.ledger
                /\ afterDispute' =
                      /\ result = "Ok"
                      /\ last.type = "Dispute"
                      /\ dec.transaction.type = "Resolve"
                      /\ dec.transaction.client = last.client
                      /\ dec.transaction.tx = last.tx
                /\ retried' = (result = "Err" /\ dec.transaction = last)
                /\ resolved' =
                      IF r.ok /\ dec.transaction.type = "Resolve"
                      THEN resolved \cup
                              {<<dec.transaction.client, dec.transaction.tx>>}
                      ELSE resolved
                /\ tally' = IF r.ok THEN Tallied(tally, ledger, dec.transaction)
                            ELSE tally
        /\ UNCHANGED <<pc, output>>

\* Decoding a row: csv_reader.deserialize(), then Transaction::try_from.
Decode(rec) ==
    IF ~Deserialize(rec).ok THEN Deserialize(rec)
    ELSE try_from(Deserialize(rec).record)

\* One iteration of the loop over csv_reader.deserialize().
ReadRecord ==
    /\ pc = "read"
    /\ nread < MaxRecords
    /\ \E rec \in Records : Iterate(Decode(rec)) /\ rawType' = rec.tx_type
    /\ stream' = stream

\* The iterator is exhausted: the loop ends and the writer is created.
EndOfStream ==
    /\ pc = "read"
    /\ pc' = "write"
    /\ last' = NoTransaction
    /\ result' = "None"
    /\ prev' = ledger
    /\ afterDispute' = FALSE
    /\ dropped' = ""
    /\ retried' = FALSE
    /\ rawType' = ""
    /\ UNCHANGED <<ledger, nread, output, resolved, tally, stream>>

\* Clients whose row is already on stdout.
Written == {output[i].client : i \in 1..Len(output)}

\* One iteration of `for (client_id, client) in ledger`, in HashMap order.
WriteRow ==
    /\ pc = "write"
    /\ \E client_id \in (DOMAIN ledger) \ Written :
          output' = Append(output, to_client_record(ledger[client_id], client_id))
    /\ UNCHANGED <<pc, ledger, nread, last, result, prev, afterDispute, dropped,
                   retried, resolved, tally, rawType, stream>>

\* main returning before the loop over the ledger has run dry.
Finish_early ==
    /\ pc = "write"
    /\ pc' = "done"
    /\ UNCHANGED <<ledger, nread, last, result, prev, afterDispute, output,
                   dropped, retried, resolved, tally, rawType, stream>>

\* The ledger is drained: main returns Ok(()).
Finish ==
    /\ pc = "write"
    /\ (DOMAIN ledger) \ Written = {}
    /\ pc' = "done"
    /\ UNCHANGED <<ledger, nread, last, result, prev, afterDispute, output,
                   dropped, retried, resolved, tally, rawType, stream>>

Next == ReadRecord \/ EndOfStream \/ WriteRow \/ Finish

Spec == Init /\ [][Next]_vars

\* ------------------------------------------------- short runs, remembered
\* One iteration of the loop in a run that remembers what it has decoded:
\* the Transaction try_from built is appended to stream, a dropped row is not.
FoldRead ==
    /\ pc = "read"
    /\ nread < MaxStream
    /\ \E rec \in Records :
          /\ Iterate(Decode(rec))
          /\ rawType' = rec.tx_type
          /\ stream' = IF Decode(rec).ok
                       THEN Append(stream, Decode(rec).transaction)
                       ELSE stream

FoldNext == FoldRead \/ EndOfStream \/ WriteRow \/ Finish

FoldSpec == Init /\ [][FoldNext]_vars

\* main is one sequential thread with nothing to wait for: the input is a
\* finite file, so while a step is possible the program takes one.
FairSpec == FoldSpec /\ WF_vars(FoldNext)


\* ---------------------------------------------------------- the core alone
\* Every value of the Transaction enum, whether or not try_from would build
\* it: Decimal is signed, so the amount of a Deposit or Withdrawal may be
\* negative.
CoreTransactions ==
    [type : {"Deposit"}, client : ClientIds, tx : TxIds,
     amount : (0 - 1)..MaxAmount]
    \cup [type : {"Withdrawal"}, client : ClientIds, amount : (0 - 1)..MaxAmount]
    \cup [type : {"Dispute", "Resolve", "Chargeback"}, client : ClientIds,
          tx : TxIds]

\* process_transaction called on a Transaction that no decoder has vetted.
CoreApply ==
    /\ pc = "read"
    /\ nread < MaxRecords
    /\ \E t \in CoreTransactions : Iterate([ok |-> TRUE, transaction |-> t])
    /\ rawType' = ""
    /\ stream' = stream

CoreNext == CoreApply

CoreSpec == Init /\ [][CoreNext]_vars

\* ------------------------------------------------------------------ claims
\* An iteration of the record loop has just run (not a write step).
Applied == pc = "read" /\ last.type # "None"

\* The account the latest transaction names, before and after it.
Before == prev[last.client]
After == ledger[last.client]

\* C1: a transaction process_transaction rejects leaves the whole ledger
\* exactly as it was before the attempt.
C1_RejectionLeavesLedger == result = "Err" => ledger = prev

\* C1 witness: a withdrawal beyond the balance of an open account that has
\* received a deposit was rejected.
C1_Witness ==
    /\ result = "Err"
    /\ last.type = "Withdrawal"
    /\ last.client \in DOMAIN ledger
    /\ ~After.locked
    /\ DOMAIN After.deposits # {}
    /\ After.available < last.amount

\* C2: once an account is locked, every later transaction for that client is
\* rejected and the account (available, held, deposits, locked) never changes.
C2_LockedIsTerminal ==
    [][\A c \in DOMAIN ledger :
          ledger[c].locked =>
             /\ c \in DOMAIN ledger'
             /\ ledger'[c] = ledger[c]
             /\ (nread' # nread /\ last'.type # "None" /\ last'.client = c
                    => result' = "Err")]_vars

\* C2 witness: a deposit with a fresh tx id was rejected by a locked account.
C2_Witness ==
    /\ result = "Err"
    /\ last.type = "Deposit"
    /\ last.client \in DOMAIN ledger
    /\ After.locked
    /\ last.tx \notin DOMAIN After.deposits

\* C3 as stated: every account has available >= 0 and held >= 0 in every
\* reachable state.
C3_NeverNegative ==
    \A c \in DOMAIN ledger : ledger[c].available >= 0 /\ ledger[c].held >= 0

\* C3 as amended: held >= 0 always, and available drops below zero only by a
\* successfully applied Dispute; no Deposit, Withdrawal, Resolve or Chargeback
\* takes it there.
C3_OnlyDisputeOverdraws ==
    \A c \in DOMAIN ledger :
       /\ ledger[c].held >= 0
       /\ (ledger[c].available < 0 /\ (c \in DOMAIN prev => prev[c].available >= 0))
             => (result = "Ok" /\ last.type = "Dispute" /\ last.client = c)

\* C3 witness: a dispute has just taken a non-negative available below zero.
C3_Witness ==
    /\ Applied /\ result = "Ok" /\ last.type = "Dispute"
    /\ Before.available >= 0
    /\ After.available < 0
    /\ After.held > 0

\* The sum of the amounts stored under the tx ids in keys.
RECURSIVE SumAmounts(_, _)
SumAmounts(deposits, keys) ==
    IF keys = {} THEN 0
    ELSE LET k == CHOOSE x \in keys : TRUE
         IN  deposits[k].amount + SumAmounts(deposits, keys \ {k})

\* The tx ids of the deposits of an account that are under dispute.
Disputed(client_state) ==
    {tx \in DOMAIN client_state.deposits : client_state.deposits[tx].under_dispute}

\* C4: held is the sum of the amounts of exactly the deposits under dispute.
C4_HeldIsDisputedSum ==
    \A c \in DOMAIN ledger :
       ledger[c].held = SumAmounts(ledger[c].deposits, Disputed(ledger[c]))

\* C4 witness: an account holds a disputed and an undisputed deposit, both of
\* a positive amount, after a resolve has released one of them.
C4_Witness ==
    /\ Applied /\ result = "Ok" /\ last.type = "Resolve"
    /\ \E t1, t2 \in DOMAIN After.deposits :
          /\ After.deposits[t1].under_dispute /\ After.deposits[t1].amount > 0
          /\ ~After.deposits[t2].under_dispute /\ After.deposits[t2].amount > 0

\* C5: every output row has total = available + held, with available and held
\* the account's values after the last transaction of the stream.
C5_RowTotal ==
    \A i \in 1..Len(output) :
       /\ output[i].total = output[i].available + output[i].held
       /\ output[i].available = ledger[output[i].client].available
       /\ output[i].held = ledger[output[i].client].held

\* C5 witness: the run is over and a row with funds held has been written.
C5_Witness ==
    /\ pc = "done"
    /\ \E i \in 1..Len(output) : output[i].held > 0 /\ output[i].total > 0


\* The latest transaction named an open account and a deposit stored in it.
OnStoredDeposit ==
    /\ last.client \in DOMAIN prev
    /\ ~Before.locked
    /\ last.tx \in DOMAIN Before.deposits

\* C6: a Dispute of a stored deposit that is not under dispute, on an open
\* account, succeeds whatever the balance: the flag is set, the stored amount
\* moves from available to held unclamped, and the total stays.
C6_DisputeEffect ==
    (Applied /\ last.type = "Dispute" /\ OnStoredDeposit
        /\ ~Before.deposits[last.tx].under_dispute)
    => /\ result = "Ok"
       /\ ledger =
            [prev EXCEPT
               ![last.client].deposits[last.tx].under_dispute = TRUE,
               ![last.client].held = @ + Before.deposits[last.tx].amount,
               ![last.client].available = @ - Before.deposits[last.tx].amount]
       /\ After.available + After.held = Before.available + Before.held

\* C6 witness: a dispute of a deposit that had been withdrawn succeeded and
\* left available negative, with the total where it was.
C6_Witness ==
    /\ Applied /\ result = "Ok" /\ last.type = "Dispute"
    /\ Before.available < Before.deposits[last.tx].amount
    /\ After.available = Before.available - After.deposits[last.tx].amount
    /\ After.available < 0
    /\ After.deposits[last.tx].under_dispute

\* A successful Chargeback takes the stored amount out of held, leaves
\* available alone, clears the flag and locks the account.
ChargebackEffect ==
    (Applied /\ last.type = "Chargeback" /\ result = "Ok")
    => /\ OnStoredDeposit
       /\ ledger =
            [prev EXCEPT
               ![last.client].deposits[last.tx].under_dispute = FALSE,
               ![last.client].held = @ - Before.deposits[last.tx].amount,
               ![last.client].locked = TRUE]
       /\ After.available + After.held =
             Before.available + Before.held - Before.deposits[last.tx].amount

\* A step leaves alone the available balance of every locked account.
ChargedBackStaysGone ==
    \A c \in DOMAIN ledger :
       ledger[c].locked =>
          c \in DOMAIN ledger' /\ ledger'[c].available = ledger[c].available

\* C7: a successful Chargeback subtracts the stored amount from held, leaves
\* available unchanged, clears under_dispute and locks the account; the total
\* drops by the amount, which no later transaction returns to available.
C7_ChargebackEffect == [](ChargebackEffect) /\ [][ChargedBackStaysGone]_vars

\* C7 witness: a chargeback of one of two deposits succeeded; the other
\* deposit's funds are still available and the account is locked.
C7_Witness ==
    /\ Applied /\ result = "Ok" /\ last.type = "Chargeback"
    /\ Before.deposits[last.tx].amount > 0
    /\ After.available > 0
    /\ After.held = 0
    /\ After.locked

\* C8: a successful Dispute directly followed by a Resolve of the same client
\* and tx: the Resolve succeeds and the ledger is back where it was before
\* the Dispute.
C8_DisputeResolveRoundTrip ==
    [][(/\ result = "Ok" /\ last.type = "Dispute"
        /\ nread' # nread
        /\ last'.type = "Resolve"
        /\ last'.client = last.client
        /\ last'.tx = last.tx)
       => (result' = "Ok" /\ ledger' = prev)]_vars

\* C8 witness: such a Resolve has run, on a deposit of a positive amount.
C8_Witness ==
    /\ afterDispute
    /\ result = "Ok"
    /\ After.deposits[last.tx].amount > 0
    /\ ~After.deposits[last.tx].under_dispute

\* C9: a Withdrawal on an open account is rejected with no change when
\* available < amount, and otherwise takes exactly amount from available and
\* changes nothing else; available is >= 0 after a successful one.
C9_WithdrawalEffect ==
    (Applied /\ last.type = "Withdrawal" /\ last.client \in DOMAIN prev
        /\ ~Before.locked)
    => IF Before.available < last.amount
       THEN result = "Err" /\ ledger = prev
       ELSE /\ result = "Ok"
            /\ ledger = [prev EXCEPT ![last.client].available = @ - last.amount]
            /\ After.available >= 0

\* C9 witness: a withdrawal of the exact balance succeeded.
C9_Witness ==
    /\ Applied /\ result = "Ok" /\ last.type = "Withdrawal"
    /\ last.amount > 0
    /\ Before.available = last.amount
    /\ After.available = 0

\* C10: a step removes no key of an account's deposit map and changes no
\* stored amount, and a Deposit under a tx id already stored in the account
\* is rejected and changes nothing.
C10_DepositsAppendOnly ==
    [][/\ \A c \in DOMAIN ledger :
             /\ c \in DOMAIN ledger'
             /\ \A tx \in DOMAIN ledger[c].deposits :
                   /\ tx \in DOMAIN ledger'[c].deposits
                   /\ ledger'[c].deposits[tx].amount = ledger[c].deposits[tx].amount
       /\ (/\ nread' # nread
           /\ last'.type = "Deposit"
           /\ last'.client \in DOMAIN ledger
           /\ last'.tx \in DOMAIN ledger[last'.client].deposits)
          => (result' = "Err" /\ ledger' = ledger)]_vars

\* C10 witness: an open account rejected a deposit that repeats a stored tx
\* id with another amount; the stored amount stands.
C10_Witness ==
    /\ Applied /\ result = "Err" /\ last.type = "Deposit"
    /\ last.client \in DOMAIN ledger
    /\ ~After.locked
    /\ last.tx \in DOMAIN After.deposits
    /\ After.deposits[last.tx].amount # last.amount


\* The StoredDeposit a Deposit of this amount inserts.
Stored(amount) == [amount |-> amount, under_dispute |-> FALSE]

\* C11: a Deposit for a client without an account succeeds and creates the
\* account with available = amount, held = 0, unlocked, and the one stored
\* deposit; for an open account that does not store tx it succeeds, adds amount
\* to available, inserts the stored deposit and changes nothing else.
C11_DepositEffect ==
    (Applied /\ last.type = "Deposit")
    => /\ last.client \notin DOMAIN prev
          => /\ result = "Ok"
             /\ DOMAIN ledger = DOMAIN prev \cup {last.client}
             /\ After = [deposits |-> Put(<<>>, last.tx, Stored(last.amount)),
                         available |-> last.amount, held |-> 0, locked |-> FALSE]
             /\ \A c \in DOMAIN prev : ledger[c] = prev[c]
       /\ (/\ last.client \in DOMAIN prev
           /\ ~Before.locked
           /\ last.tx \notin DOMAIN Before.deposits)
          => /\ result = "Ok"
             /\ ledger =
                  [prev EXCEPT
                     ![last.client].available = @ + last.amount,
                     ![last.client].deposits = Put(@, last.tx, Stored(last.amount))]
             /\ After.held = Before.held
             /\ After.locked = Before.locked
             /\ \A tx \in DOMAIN Before.deposits :
                   After.deposits[tx] = Before.deposits[tx]

\* C11 witness: a second deposit of a positive amount reached an open account
\* that holds a deposit under dispute.
C11_Witness ==
    /\ Applied /\ result = "Ok" /\ last.type = "Deposit"
    /\ last.amount > 0
    /\ last.client \in DOMAIN prev
    /\ Before.held > 0
    /\ After.available = Before.available + last.amount
    /\ Cardinality(DOMAIN After.deposits) = 2


\* C12: a Withdrawal, Dispute, Resolve or Chargeback for a client without an
\* account is rejected and creates none; the set of client ids of the ledger
\* grows only by a successfully applied Deposit and never shrinks.
C12_OnlyDepositOpensAccount ==
    [][/\ DOMAIN ledger \subseteq DOMAIN ledger'
       /\ DOMAIN ledger' # DOMAIN ledger
             => (/\ last'.type = "Deposit" /\ result' = "Ok"
                 /\ DOMAIN ledger' = DOMAIN ledger \cup {last'.client})
       /\ (/\ nread' # nread
           /\ last'.type \in {"Withdrawal", "Dispute", "Resolve", "Chargeback"}
           /\ last'.client \notin DOMAIN ledger)
          => (result' = "Err" /\ ledger' = ledger)]_vars

\* C12 witness: a withdrawal of nothing for a client without an account was
\* rejected while another client has one, and the client still has none.
C12_Witness ==
    /\ Applied /\ result = "Err" /\ last.type = "Withdrawal"
    /\ last.amount = 0
    /\ last.client \notin DOMAIN ledger
    /\ DOMAIN ledger # {}


\* C13: a transaction of client A, applied or rejected, leaves every other
\* client as it was: its account unchanged, or still without an account.
C13_OtherClientsUntouched ==
    [][(nread' # nread /\ last'.type # "None")
       => \A b \in ClientIds \ {last'.client} :
             /\ b \in DOMAIN ledger <=> b \in DOMAIN ledger'
             /\ b \in DOMAIN ledger => ledger'[b] = ledger[b]]_vars

\* C13 witness: a chargeback has locked one client while the other client's
\* account holds funds and stays open.
C13_Witness ==
    /\ Applied /\ result = "Ok" /\ last.type = "Chargeback"
    /\ \E b \in DOMAIN ledger \ {last.client} :
          /\ ledger[b] = prev[b]
          /\ ledger[b].available > 0
          /\ ~ledger[b].locked


\* The latest transaction named a deposit that was under dispute in an
\* account of its client.
OnDisputedDeposit ==
    /\ last.client \in DOMAIN prev
    /\ last.tx \in DOMAIN Before.deposits
    /\ Before.deposits[last.tx].under_dispute

\* C14: a Resolve or Chargeback of a tx the account does not store, or of a
\* stored deposit that is not under dispute, is rejected with no effect; an
\* account gets locked only by a Chargeback of a deposit under dispute.
C14_NeedsOpenDispute ==
    /\ (Applied /\ last.type \in {"Resolve", "Chargeback"} /\ ~OnDisputedDeposit)
          => (result = "Err" /\ ledger = prev)
    /\ \A c \in DOMAIN ledger :
          (ledger[c].locked /\ (c \in DOMAIN prev => ~prev[c].locked))
          => /\ Applied /\ result = "Ok" /\ last.type = "Chargeback"
             /\ last.client = c
             /\ OnDisputedDeposit

\* C14 witness: an open account rejected the chargeback of a deposit it
\* stores, of a positive amount, that is not under dispute.
C14_Witness ==
    /\ Applied /\ result = "Err" /\ last.type = "Chargeback"
    /\ last.client \in DOMAIN ledger
    /\ ~After.locked
    /\ last.tx \in DOMAIN After.deposits
    /\ ~After.deposits[last.tx].under_dispute
    /\ After.deposits[last.tx].amount > 0


\* C15: a Dispute of a deposit already under dispute, or of a tx the account
\* does not store, is rejected with no effect, so held never counts a stored
\* deposit more than once.
C15_DisputeNotReentrant ==
    /\ (/\ Applied /\ last.type = "Dispute"
        /\ last.client \in DOMAIN prev
        /\ \/ last.tx \notin DOMAIN Before.deposits
           \/ Before.deposits[last.tx].under_dispute)
       => (result = "Err" /\ ledger = prev)
    /\ \A c \in DOMAIN ledger :
          ledger[c].held <= SumAmounts(ledger[c].deposits, DOMAIN ledger[c].deposits)

\* C15 witness: an open account rejected a second dispute of a deposit of a
\* positive amount that is under dispute; held counts the amount once.
C15_Witness ==
    /\ Applied /\ result = "Err" /\ last.type = "Dispute"
    /\ last.client \in DOMAIN ledger
    /\ ~After.locked
    /\ last.tx \in DOMAIN After.deposits
    /\ After.deposits[last.tx].under_dispute
    /\ After.deposits[last.tx].amount > 0
    /\ After.held = After.deposits[last.tx].amount


\* C16: an account is unlocked when it is created, and a locked account stays
\* locked through every step, whatever transaction of whatever client it is.
C16_LockedIsMonotonic ==
    [][/\ \A c \in DOMAIN ledger :
             ledger[c].locked => (c \in DOMAIN ledger' /\ ledger'[c].locked)
       /\ \A c \in DOMAIN ledger' \ DOMAIN ledger : ~ledger'[c].locked]_vars

\* C16 witness: a locked account has stayed locked through a deposit of its
\* own client, which was rejected.
C16_Witness ==
    /\ Applied /\ result = "Err" /\ last.type = "Deposit"
    /\ last.client \in DOMAIN prev
    /\ Before.locked
    /\ After.locked
    /\ last.amount > 0


\* C17: when a transaction has been rejected in ledger state S and the next
\* row carries the same transaction, it is rejected again, and the ledger is S
\* after the first attempt and after the second.
C17_RejectionIsIdempotent ==
    [][(result = "Err" /\ nread' # nread /\ last'.type # "None" /\ last' = last)
       => (ledger = prev /\ result' = "Err" /\ ledger' = prev)]_vars

\* C17 witness: a resolve of a stored deposit that is not under dispute was
\* rejected twice in a row by an open account with funds.
C17_Witness ==
    /\ retried
    /\ Applied /\ result = "Err" /\ last.type = "Resolve"
    /\ last.client \in DOMAIN ledger
    /\ ~After.locked
    /\ last.tx \in DOMAIN After.deposits
    /\ After.available > 0


\* The latest transaction was a Dispute of a deposit that a Resolve had
\* released before.
Redispute ==
    Applied /\ last.type = "Dispute" /\ <<last.client, last.tx>> \in resolved

\* C18 as stated: a Dispute of a deposit that was disputed and then resolved
\* is rejected and changes nothing.
C18_RedisputeRejected == Redispute => (result = "Err" /\ ledger = prev)

\* C18 as amended: such a Dispute is applied like a first one (flag set, the
\* stored amount moved from available to held) unless the account is locked
\* or the deposit is under dispute again; only then is it rejected, with no
\* effect.
C18_RedisputeApplied ==
    Redispute
    => IF /\ last.client \in DOMAIN prev
          /\ ~Before.locked
          /\ last.tx \in DOMAIN Before.deposits => ~Before.deposits[last.tx].under_dispute
       THEN /\ result = "Ok"
            /\ ledger =
                 [prev EXCEPT
                    ![last.client].deposits[last.tx].under_dispute = TRUE,
                    ![last.client].held = @ + Before.deposits[last.tx].amount,
                    ![last.client].available = @ - Before.deposits[last.tx].amount]
       ELSE result = "Err" /\ ledger = prev

\* C18 witness: a deposit of a positive amount that had been disputed and
\* resolved was disputed again, and its amount is held again.
C18_Witness ==
    /\ Redispute /\ result = "Ok"
    /\ After.deposits[last.tx].under_dispute
    /\ After.deposits[last.tx].amount > 0
    /\ After.held = After.deposits[last.tx].amount
    /\ After.available = Before.available - After.held


\* C19: process_deposit and process_withdrawal, called with a negative
\* amount, return a rejection and leave the ledger unchanged.
C19_CoreRejectsNegative ==
    (Applied /\ last.type \in {"Deposit", "Withdrawal"} /\ last.amount < 0)
    => (result = "Err" /\ ledger = prev)


\* A deposit or withdrawal row whose amount column is empty or negative.
BadAmountRows ==
    {rec \in Records :
        /\ rec.tx_type \in {"deposit", "withdrawal"}
        /\ (rec.amount = <<>> \/ rec.amount[1] < 0)}

\* C20: a deposit or withdrawal row with a missing or negative amount fails
\* conversion; a dropped row changes nothing and creates no account; every
\* amount a Deposit or Withdrawal applies, and every stored amount, is >= 0.
C20_BadAmountsNeverReachLedger ==
    /\ \A rec \in BadAmountRows : ~Decode(rec).ok
    /\ result = "Dropped" => (last = NoTransaction /\ ledger = prev)
    /\ (Applied /\ last.type \in {"Deposit", "Withdrawal"}) => last.amount >= 0
    /\ \A c \in DOMAIN ledger :
          \A tx \in DOMAIN ledger[c].deposits : ledger[c].deposits[tx].amount >= 0

\* C20 witness: a row was dropped for its negative amount while the ledger
\* holds one account with funds; the ledger is as it was.
C20_Witness ==
    /\ result = "Dropped"
    /\ dropped = "negative amount not allowed"
    /\ Cardinality(DOMAIN ledger) = 1
    /\ \E c \in DOMAIN ledger : ledger[c].available > 0
    /\ ledger = prev


\* C27: every account has held >= 0 in every reachable state, because held
\* only goes down by a successful Resolve or Chargeback of a deposit that was
\* under dispute, and then by the amount that deposit's Dispute had added.
C27_HeldNeverNegative ==
    \A c \in DOMAIN ledger :
       /\ ledger[c].held >= 0
       /\ (c \in DOMAIN prev /\ ledger[c].held < prev[c].held)
             => /\ Applied /\ result = "Ok"
                /\ last.type \in {"Resolve", "Chargeback"}
                /\ last.client = c
                /\ last.tx \in Disputed(prev[c])
                /\ ledger[c].held = prev[c].held - prev[c].deposits[last.tx].amount

\* C27 witness: a resolve took one of two disputed deposits out of held and
\* left the other one there.
C27_Witness ==
    /\ Applied /\ result = "Ok" /\ last.type = "Resolve"
    /\ After.held < Before.held
    /\ After.held > 0


\* The accounts other than client's that store a deposit under tx in ledger l.
OtherOwners(l, client, tx) ==
    {a \in (DOMAIN l) \ {client} : tx \in DOMAIN l[a].deposits}

\* The latest transaction was a Dispute, Resolve or Chargeback naming a tx
\* that only accounts of other clients store.
OnForeignDeposit ==
    /\ Applied
    /\ last.type \in {"Dispute", "Resolve", "Chargeback"}
    /\ ~(last.client \in DOMAIN prev /\ last.tx \in DOMAIN Before.deposits)
    /\ OtherOwners(prev, last.client, last.tx) # {}

\* C29: a Dispute, Resolve or Chargeback of client B naming a tx that only
\* another client A has deposited is rejected and changes neither account.
C29_ForeignDepositRejected ==
    OnForeignDeposit => (result = "Err" /\ ledger = prev)

\* C29 witness: client B, who has an open account, sent a Chargeback for a
\* deposit that sits under dispute in the account of A, and A is not locked.
C29_Witness ==
    /\ OnForeignDeposit
    /\ last.type = "Chargeback"
    /\ last.client \in DOMAIN ledger /\ ~After.locked
    /\ \E a \in OtherOwners(ledger, last.client, last.tx) :
          /\ ledger[a].deposits[last.tx].under_dispute
          /\ ledger[a].held > 0
          /\ ~ledger[a].locked


\* The latest transaction was a Deposit under a tx that another client's
\* account already stores, into an account that is absent, or open and
\* without a deposit under that tx.
OnSharedTxDeposit ==
    /\ Applied
    /\ last.type = "Deposit"
    /\ OtherOwners(prev, last.client, last.tx) # {}
    /\ (last.client \in DOMAIN prev
          => ~Before.locked /\ last.tx \notin DOMAIN Before.deposits)

\* The latest transaction was a Dispute, Resolve or Chargeback that was
\* applied to a deposit whose tx another client's account stores as well.
OnSharedTxReference ==
    /\ Applied
    /\ result = "Ok"
    /\ last.type \in {"Dispute", "Resolve", "Chargeback"}
    /\ OtherOwners(prev, last.client, last.tx) # {}

\* C30: tx ids are unique per account only. A Deposit of client B under a tx
\* that client A already stores succeeds whatever the input held before it,
\* and a Dispute, Resolve or Chargeback of either client's deposit under that
\* tx works on that client's deposit and leaves the other client's alone.
C30_TxUniquePerAccount ==
    /\ OnSharedTxDeposit
         => /\ result = "Ok"
            /\ After.deposits[last.tx] = Stored(last.amount)
            /\ \A a \in OtherOwners(prev, last.client, last.tx) :
                  ledger[a] = prev[a]
    /\ OnSharedTxReference
         => /\ After.deposits[last.tx].under_dispute = (last.type = "Dispute")
            /\ Before.deposits[last.tx].under_dispute = (last.type # "Dispute")
            /\ \A a \in OtherOwners(prev, last.client, last.tx) :
                  ledger[a] = prev[a]

\* C30 witness: client B's deposit under a shared tx was charged back while
\* client A's deposit under the same tx stays under dispute in an open
\* account.
C30_Witness ==
    /\ OnSharedTxReference
    /\ last.type = "Chargeback"
    /\ \E a \in OtherOwners(ledger, last.client, last.tx) :
          /\ ledger[a].deposits[last.tx].under_dispute
          /\ ~ledger[a].locked


\* C25: conservation of funds. For every account, available + held is the
\* sum of the client's applied deposits, minus the sum of its applied
\* withdrawals, minus the amount of the deposit charged back, if any; a
\* client without an account has had nothing applied.
C25_FundsConserved ==
    \A c \in ClientIds :
       IF c \in DOMAIN ledger
       THEN ledger[c].available + ledger[c].held =
               tally[c].deposited - tally[c].withdrawn - tally[c].chargedback
       ELSE tally[c] = NoTally[c]

\* C25 witness: a chargeback has just locked an account that had two
\* deposits and a withdrawal of positive amounts, so that all three sums
\* count and cancel.
C25_Witness ==
    /\ Applied /\ result = "Ok" /\ last.type = "Chargeback"
    /\ tally[last.client].deposited > 1
    /\ tally[last.client].withdrawn > 0
    /\ tally[last.client].chargedback > 0
    /\ After.available + After.held = 0


\* C26: available is negative only in an account that has a deposit under
\* dispute or has had a deposit charged back; without either it is >= 0, and
\* in no account do the applied withdrawals add up to more than the applied
\* deposits.
C26_OverdrawnOnlyByDispute ==
    \A c \in DOMAIN ledger :
       /\ ledger[c].available < 0
             => (Disputed(ledger[c]) # {} \/ tally[c].chargebacks > 0)
       /\ tally[c].withdrawn <= tally[c].deposited

\* C26 witness: an account whose deposit was withdrawn and then charged back
\* is left with a negative available, nothing held and no deposit under
\* dispute.
C26_Witness ==
    \E c \in DOMAIN ledger :
       /\ ledger[c].available < 0
       /\ ledger[c].held = 0
       /\ Disputed(ledger[c]) = {}
       /\ tally[c].chargebacks > 0
       /\ tally[c].withdrawn > 0


\* No client has had more than one Chargeback applied, and an account is
\* locked exactly when it has had one.
OneChargebackLocks ==
    \A c \in ClientIds :
       /\ tally[c].chargebacks <= 1
       /\ IF c \in DOMAIN ledger
          THEN ledger[c].locked <=> tally[c].chargebacks = 1
          ELSE tally[c].chargebacks = 0

\* A Chargeback that succeeds releases the one deposit it names: the others
\* under dispute stay so, and held is their sum.
ChargebackKeepsOtherDisputes ==
    (Applied /\ result = "Ok" /\ last.type = "Chargeback")
    => /\ Disputed(After) = Disputed(Before) \ {last.tx}
       /\ After.held = SumAmounts(After.deposits, Disputed(After))

\* A step leaves the disputes of every locked account, and its held, alone.
LockedKeepsDisputes ==
    \A c \in DOMAIN ledger :
       ledger[c].locked =>
          /\ c \in DOMAIN ledger'
          /\ Disputed(ledger'[c]) = Disputed(ledger[c])
          /\ ledger'[c].held = ledger[c].held

\* C28: at most one Chargeback succeeds per client, an account is locked if
\* and only if exactly one has; the deposits still under dispute when it
\* succeeds stay under dispute and in held until the run ends.
C28_OneChargeback ==
    /\ [](OneChargebackLocks /\ ChargebackKeepsOtherDisputes)
    /\ [][LockedKeepsDisputes]_vars

\* C28 witness: the run has ended and written the row of a locked account
\* in which another deposit is still under dispute and held.
C28_Witness ==
    /\ pc = "done"
    /\ \E i \in 1..Len(output) :
          /\ output[i].locked
          /\ output[i].held > 0
          /\ Disputed(ledger[output[i].client]) # {}
          /\ tally[output[i].client].chargebacks = 1


\* The clients for which at least one Deposit has been applied.
Depositors == {c \in ClientIds : tally[c].deposits > 0}

\* C23: after end of stream the output holds exactly one row for each client
\* that had a Deposit applied, locked or overdrawn or not, and no row for
\* any other client; no row is written twice on the way there.
C23_OneRowPerDepositor ==
    /\ Len(output) = Cardinality(Written)
    /\ Written \subseteq Depositors
    /\ pc = "read" => output = <<>>
    /\ pc = "done" => Written = Depositors

\* C23 witness: a run of MaxRecords rows has ended with the row of a locked,
\* overdrawn account as its whole output, the other client having no row.
C23_Witness ==
    /\ pc = "done"
    /\ nread = MaxRecords
    /\ Len(output) = 1
    /\ output[1].locked
    /\ output[1].available < 0
    /\ Depositors # ClientIds


\* The all-lowercase spelling of a type column.
Lowercase(s) ==
    CASE s = "Deposit" -> "deposit"
      [] s = "DISPUTE" -> "dispute"
      [] OTHER -> s

\* C24: the decoder reads the type column case-insensitively: a row whose
\* type is some upper/lower-case spelling of one of the five types is not
\* dropped as an unknown type, and decodes to the Transaction of the
\* all-lowercase spelling.
C24_TypeCaseInsensitive ==
    (pc = "read" /\ nread > 0 /\ TransactionType(Lowercase(rawType)) # "Invalid")
    => /\ dropped # "unknown variant"
       /\ last.type # "None" => last.type = TransactionType(Lowercase(rawType))


RECURSIVE FoldLedger(_, _)
FoldLedger(l, transactions) ==
    IF transactions = <<>> THEN l
    ELSE FoldLedger(process_transaction(l, Head(transactions)).ledger,
                    Tail(transactions))

\* C21: at every point of the run, and so at its end, the driver's ledger is
\* the left fold, in input order and from the empty ledger, of the
\* transition rules over the transactions decoded so far; each row read
\* contributes at most one transaction, and the write phase leaves the
\* ledger as the loop left it.
C21_LedgerIsFold ==
    /\ ledger = FoldLedger(EmptyLedger, stream)
    /\ Len(stream) <= nread
    /\ \A i \in 1..Len(output) :
          output[i] = to_client_record(FoldLedger(EmptyLedger, stream)[output[i].client],
                                       output[i].client)

\* C21 witness: a run has ended on a deposit followed by a withdrawal of the
\* same client that emptied the account; in the other order the withdrawal
\* would have been rejected and the funds would still be there.
C21_Witness ==
    /\ pc = "done"
    /\ Len(stream) = 2
    /\ stream[1].type = "Deposit"
    /\ stream[2].type = "Withdrawal"
    /\ stream[1].client = stream[2].client
    /\ stream[2].amount > 0
    /\ ledger[stream[1].client].available = 0
    /\ ledger # FoldLedger(EmptyLedger, <<stream[2], stream[1]>>)

====
